---- MODULE Spec2Model ----
(***************************************************************************)
(* Model of the foolbox differentiable-model adapters (KerasModel,         *)
(* LasagneModel, MXNetGluonModel) and of the model-zoo git cloner.         *)
(*                                                                         *)
(* A tensor is abstracted to its shape, its dtype and one representative   *)
(* element value (a rational <<numerator, denominator>>).  The numerical   *)
(* engine (K.function, theano.function, the Gluon block) is opaque: what   *)
(* it returns, or whether it raises, is drawn nondeterministically.        *)
(***************************************************************************)
EXTENDS Integers, Sequences, FiniteSets, TLC

\* ------------------------------------------------------------------ bounds
MaxBatch == 2
MaxClasses == 2
MaxVal == 1
MaxCalls == 2

\* ------------------------------------------------------- program constants
\* eps = 10e-8 in _to_logits, as mantissa and negated decimal exponent
EpsMantissa == 10
EpsNegExp == 8

\* an unknown dimension of a declared shape, and Python's None
None == -1
NoTensor == [shape |-> <<>>, dtype |-> "none", val |-> <<0, 1>>]
NoModel == [kind |-> "none"]

Dtypes == {"float32", "float64"}

\* ------------------------------------------------------------ rationals
RECURSIVE Gcd(_, _)
Gcd(a, b) == IF b = 0 THEN a ELSE Gcd(b, a % b)

Abs(n) == IF n < 0 THEN -n ELSE n

\* a rational in lowest terms with a positive denominator
Norm(q) ==
    LET g == Gcd(Abs(q[1]), Abs(q[2]))
        s == IF q[2] < 0 THEN -1 ELSE 1
    IN  IF q[1] = 0 THEN <<0, 1>> ELSE <<(s * q[1]) \div g, (s * q[2]) \div g>>

RatSub(a, b) == Norm(<<a[1] * b[2] - b[1] * a[2], a[2] * b[2]>>)
RatDiv(a, b) == Norm(<<a[1] * b[2], a[2] * b[1]>>)
RatMul(a, b) == Norm(<<a[1] * b[1], a[2] * b[2]>>)

\* ------------------------------------------------------- numpy primitives
\* x[np.newaxis]
NewAxis(t) == [t EXCEPT !.shape = <<1>> \o t.shape]

\* x[0] of a tensor of rank >= 1
Index0(t) == [t EXCEPT !.shape = Tail(t.shape)]

\* np.squeeze(x, axis=0) raises ValueError unless axis 0 has length 1
CanSqueeze0(t) == Len(t.shape) >= 1 /\ t.shape[1] = 1
Squeeze0(t) == [t EXCEPT !.shape = Tail(t.shape)]

\* x.astype(dtype, copy=False)
AsType(t, dtype) == [t EXCEPT !.dtype = dtype]

Ndim(t) == Len(t.shape)

\* --------------------------------------------- preprocessing (base class)
\* _process_input: normalized = (raw - subtrahend) / divisor and the
\* gradient scale 1 / divisor; scalar parameters keep shape and dtype
ProcessInput(m, x) ==
    [px |-> [x EXCEPT !.val = RatDiv(RatSub(x.val, <<m.psub, 1>>), <<m.pdiv, 1>>)],
     dpdx |-> RatDiv(<<1, 1>>, <<m.pdiv, 1>>)]

\* _process_gradient: elementwise product with the gradient scale
ProcessGradient(dpdx, g) == [g EXCEPT !.val = RatMul(dpdx, g.val)]

\* the (subtrahend, divisor) pairs an adapter is constructed with
Preprocessings == {<<0, 1>>, <<1, 2>>}

\* --------------------------------------------------------------- inputs
ExampleShapes == {<<1, 2>>, <<3, 2>>}

Images(n) ==
    {[shape |-> <<n>> \o s, dtype |-> d, val |-> <<v, 1>>] :
        s \in ExampleShapes, d \in Dtypes, v \in 1..MaxVal}

Image == {Index0(x) : x \in Images(1)}

\* upstream gradients of rank 1, 2 and 3
UpShapes ==
    {<<k>> : k \in 1..MaxClasses}
    \cup {<<n, c>> : n \in 1..MaxBatch, c \in 1..MaxClasses}
    \cup {<<n, MaxClasses, 1>> : n \in 1..MaxBatch}

Upstreams == {[shape |-> s, dtype |-> "float32", val |-> <<1, 1>>] : s \in UpShapes}

\* what one run of the engine produces: it may raise in the forward or in
\* the backward pass, and its outputs may or may not have the expected shape
EngineRuns ==
    [raise : {"no"},
     pmode : {"ok", "classes", "rank"},
     gmode : {"ok", "shape"},
     gdtype : Dtypes,
     gval : 1..MaxVal]
    \cup
    [raise : {"forward", "backward"},
     pmode : {"ok"}, gmode : {"ok"}, gdtype : {"float32"}, gval : {1}]

\* the runs of a function that computes no gradient
ForwardRuns ==
    {e \in EngineRuns : e.raise # "backward" /\ e.gmode = "ok"
                         /\ e.gdtype = "float32" /\ e.gval = 1}

\* the runs of the Gluon block: the shape of the gradient is not the
\* engine's choice, see AttachedGrad
MXNetRuns == {e \in EngineRuns : e.gmode = "ok"}

\* the runs of a function whose only output is a gradient
GradientRuns == {e \in EngineRuns : e.pmode = "ok"}

\* label vectors of length n
Labels(n) == [shape |-> <<n>>, dtype |-> "int32", val |-> <<0, 1>>]

\* the predictions the engine returns for a batch of n inputs of a graph
\* with c output classes
EnginePredictions(eng, n, c) ==
    [shape |-> CASE eng.pmode = "ok" -> <<n, c>>
                 [] eng.pmode = "classes" -> <<n, c + 1>>
                 [] OTHER -> <<n>>,
     dtype |-> "float32", val |-> <<1, 1>>]

\* the gradient the engine returns for the input px
EngineGradient(eng, px) ==
    [shape |-> IF eng.gmode = "ok" THEN px.shape ELSE Tail(px.shape),
     dtype |-> eng.gdtype, val |-> <<eng.gval, 1>>]

\* ------------------------------------------------------------- the state
VARIABLES model, ctor, call, fs, fetch, clones, returned

vars == <<model, ctor, call, fs, fetch, clones, returned>>

NoCall ==
    [op |-> "none", outcome |-> "none", images |-> NoTensor, up |-> NoTensor,
     pred |-> NoTensor, grad |-> NoTensor, trace |-> <<>>,
     single |-> NoTensor, engGrad |-> NoTensor, dpdx |-> <<1, 1>>]


\* a failed call: nothing is returned
Raise(op, images, up, outcome, trace) ==
    [NoCall EXCEPT !.op = op, !.outcome = outcome, !.images = images,
                   !.up = up, !.trace = trace]

\* the steps of a compiled function that raised in the given pass
Attempted(eng) ==
    IF eng.raise = "forward" THEN <<"forward">> ELSE <<"forward", "backward">>

\* ------------------------------------------------------------ KerasModel
\* the wrapped graphs' declared output shapes: int_shape of model.output
DeclaredShapes == {<<None, MaxClasses>>, <<None, None>>, <<None, MaxClasses, 1>>}

\* _to_logits: clip to [eps, 1 - eps], then log
ToLogits(predictions) == predictions \o <<"clip", "log">>

\* the result of the output-convention branch of KerasModel.__init__
Graph(predictions, lossOn, fromLogits, build, warnings) ==
    [error |-> "none", predTensor |-> predictions, lossTensor |-> lossOn,
     lossFromLogits |-> fromLogits, build |-> build, warnings |-> warnings]

NoGraph(e) == [Graph(<<>>, <<>>, FALSE, <<>>, 0) EXCEPT !.error = e]

\* a build that takes the log-clip fallback whenever the model predicts
\* probabilities
KerasGraph_FallbackFirst(predicts, backend, opInputs) ==
    IF predicts = "probabilities"
    THEN Graph(<<"clip", "log">>, <<>>, FALSE, <<"warning", "loss", "to_logits">>, 1)
    ELSE Graph(<<>>, <<>>, TRUE, <<"loss">>, 0)

\* KerasModel.__init__, the branch on predicts and K.backend(); a symbolic
\* tensor is the sequence of operations that derive it from model.output
\* (<<>> is model.output itself)
KerasGraph(predicts, backend, opInputs) ==
    LET output == <<>>
    IN  IF predicts = "probabilities"
        THEN IF backend = "tensorflow"
             THEN IF opInputs # 1 THEN NoGraph("ValueError")
                  ELSE Graph(<<"op.inputs">>, <<"op.inputs">>, TRUE,
                             <<"op.inputs", "loss">>, 0)
             ELSE Graph(ToLogits(output), output, FALSE,
                        <<"warning", "loss", "to_logits">>, 1)
        ELSE Graph(output, output, TRUE, <<"loss">>, 0)

\* KerasModel.__init__
KerasInit(versionOk, predicts0, declared, backend, opInputs, pre, c) ==
    LET predicts == IF predicts0 = "probs" THEN "probabilities" ELSE predicts0
        g == KerasGraph(predicts, backend, opInputs)
        failed(e) == [outcome |-> e, model |-> NoModel]
    IN  IF ~versionOk THEN failed("AssertionError")
        ELSE IF predicts \notin {"probabilities", "logits"} THEN failed("AssertionError")
        ELSE IF Len(declared) # 2 THEN failed("ValueError")
        ELSE IF declared[2] = None THEN failed("AssertionError")
        ELSE IF g.error # "none" THEN failed(g.error)
        ELSE [outcome |-> "ok",
              model |-> [kind |-> "keras", num_classes |-> declared[2],
                         psub |-> pre[1], pdiv |-> pre[2], graphClasses |-> c,
                         predicts |-> predicts, backend |-> backend,
                         predTensor |-> g.predTensor, lossTensor |-> g.lossTensor,
                         lossFromLogits |-> g.lossFromLogits, build |-> g.build,
                         warnings |-> g.warnings,
                         eps |-> <<EpsMantissa, EpsNegExp>>]]

\* KerasModel.batch_predictions
KerasBatchPredictions(m, images, eng) ==
    LET op == "batch_predictions"
        p == ProcessInput(m, images)
        predictions == EnginePredictions(eng, p.px.shape[1], m.graphClasses)
        trace == <<"process_input", "forward">>
    IN  IF eng.raise = "forward" THEN Raise(op, images, NoTensor, "EngineError", trace)
        ELSE IF predictions.shape # <<images.shape[1], m.num_classes>>
        THEN Raise(op, images, NoTensor, "AssertionError", trace)
        ELSE [NoCall EXCEPT !.op = op, !.outcome = "ok", !.images = images,
                            !.pred = predictions, !.trace = trace]

\* KerasModel.predictions_and_gradient
KerasPredictionsAndGradient(m, image, eng) ==
    LET op == "predictions_and_gradient"
        input_shape == image.shape
        p == ProcessInput(m, image)
        x == NewAxis(p.px)
        predictions0 == EnginePredictions(eng, x.shape[1], m.graphClasses)
        gradient0 == EngineGradient(eng, x)
        predictions == Squeeze0(predictions0)
        gradient1 == Squeeze0(gradient0)
        gradient == ProcessGradient(p.dpdx, gradient1)
        t1 == <<"process_input", "forward", "backward">>
        t2 == t1 \o <<"process_gradient">>
    IN  IF eng.raise # "no"
        THEN Raise(op, image, NoTensor, "EngineError", <<"process_input">> \o Attempted(eng))
        ELSE IF ~CanSqueeze0(predictions0) \/ ~CanSqueeze0(gradient0)
        THEN Raise(op, image, NoTensor, "ValueError", t1)
        ELSE IF predictions.shape # <<m.num_classes>>
        THEN Raise(op, image, NoTensor, "AssertionError", t2)
        ELSE IF gradient.shape # input_shape
        THEN Raise(op, image, NoTensor, "AssertionError", t2)
        ELSE [NoCall EXCEPT !.op = op, !.outcome = "ok", !.images = image,
                            !.pred = predictions, !.grad = gradient,
                            !.trace = t2, !.engGrad = gradient1, !.dpdx = p.dpdx]

\* batch_gradients that returns the engine's gradient uncorrected
KerasBatchGradients_Uncorrected(m, images, labels, eng) ==
    LET op == "batch_gradients"
        p == ProcessInput(m, images)
        g == EngineGradient(eng, p.px)
        t2 == <<"process_input", "forward", "backward", "process_gradient">>
    IN  IF eng.raise # "no"
        THEN Raise(op, images, labels, "EngineError", <<"process_input">> \o Attempted(eng))
        ELSE IF g.shape # images.shape
        THEN Raise(op, images, labels, "AssertionError", t2)
        ELSE [NoCall EXCEPT !.op = op, !.outcome = "ok", !.images = images,
                            !.up = labels, !.grad = g, !.trace = t2,
                            !.engGrad = g, !.dpdx = p.dpdx]

\* KerasModel.batch_gradients
KerasBatchGradients(m, images, labels, eng) ==
    LET op == "batch_gradients"
        p == ProcessInput(m, images)
        g0 == EngineGradient(eng, p.px)
        g == ProcessGradient(p.dpdx, g0)
        t2 == <<"process_input", "forward", "backward", "process_gradient">>
    IN  IF eng.raise # "no"
        THEN Raise(op, images, labels, "EngineError", <<"process_input">> \o Attempted(eng))
        ELSE IF g.shape # images.shape
        THEN Raise(op, images, labels, "AssertionError", t2)
        ELSE [NoCall EXCEPT !.op = op, !.outcome = "ok", !.images = images,
                            !.up = labels, !.grad = g, !.trace = t2, !.engGrad = g0,
                            !.dpdx = p.dpdx]

\* KerasModel.batch_backward
KerasBatchBackward(m, gradients, images, eng) ==
    LET op == "batch_backward"
        p == ProcessInput(m, images)
        g0 == EngineGradient(eng, p.px)
        g == ProcessGradient(p.dpdx, g0)
        t2 == <<"process_input", "forward", "backward", "process_gradient">>
    IN  IF Ndim(gradients) # 2
        THEN Raise(op, images, gradients, "AssertionError", <<>>)
        ELSE IF eng.raise # "no"
        THEN Raise(op, images, gradients, "EngineError", <<"process_input">> \o Attempted(eng))
        ELSE IF g.shape # images.shape
        THEN Raise(op, images, gradients, "AssertionError", t2)
        ELSE [NoCall EXCEPT !.op = op, !.outcome = "ok", !.images = images,
                            !.up = gradients, !.grad = g, !.trace = t2,
                            !.engGrad = g0, !.dpdx = p.dpdx]

\* ---------------------------------------------------------- LasagneModel
\* LasagneModel.__init__
LasagneInit(declared, pre, c) ==
    IF Len(declared) # 2 THEN [outcome |-> "ValueError", model |-> NoModel]
    ELSE [outcome |-> "ok",
          model |-> [kind |-> "lasagne", num_classes |-> declared[2],
                     psub |-> pre[1], pdiv |-> pre[2], graphClasses |-> c]]

\* LasagneModel.batch_predictions
LasagneBatchPredictions(m, images0, eng) ==
    LET op == "batch_predictions"
        images == ProcessInput(m, images0).px
        predictions == EnginePredictions(eng, images.shape[1], m.graphClasses)
        trace == <<"process_input", "forward">>
    IN  IF eng.raise = "forward" THEN Raise(op, images0, NoTensor, "EngineError", trace)
        ELSE IF predictions.shape # <<images.shape[1], m.num_classes>>
        THEN Raise(op, images0, NoTensor, "AssertionError", trace)
        ELSE [NoCall EXCEPT !.op = op, !.outcome = "ok", !.images = images0,
                            !.pred = predictions, !.trace = trace]

\* LasagneModel.predictions_and_gradient
LasagnePredictionsAndGradient(m, image0, eng) ==
    LET op == "predictions_and_gradient"
        input_shape == image0.shape
        p == ProcessInput(m, image0)
        image == p.px
        x == NewAxis(image)
        predictions0 == EnginePredictions(eng, x.shape[1], m.graphClasses)
        gradient0 == EngineGradient(eng, x)
        predictions == Squeeze0(predictions0)
        gradient1 == AsType(Squeeze0(gradient0), image.dtype)
        gradient == ProcessGradient(p.dpdx, gradient1)
        t1 == <<"process_input", "forward", "backward">>
        t2 == t1 \o <<"process_gradient">>
    IN  IF eng.raise # "no"
        THEN Raise(op, image0, NoTensor, "EngineError", <<"process_input">> \o Attempted(eng))
        ELSE IF ~CanSqueeze0(predictions0) \/ ~CanSqueeze0(gradient0)
        THEN Raise(op, image0, NoTensor, "ValueError", t1)
        ELSE IF predictions.shape # <<m.num_classes>>
        THEN Raise(op, image0, NoTensor, "AssertionError", t2)
        ELSE IF gradient.shape # input_shape
        THEN Raise(op, image0, NoTensor, "AssertionError", t2)
        ELSE IF gradient.dtype # image.dtype
        THEN Raise(op, image0, NoTensor, "AssertionError", t2)
        ELSE [NoCall EXCEPT !.op = op, !.outcome = "ok", !.images = image0,
                            !.pred = predictions, !.grad = gradient,
                            !.trace = t2, !.engGrad = gradient1, !.dpdx = p.dpdx]

\* LasagneModel._gradient_one and LasagneModel._backward_one after its
\* rank assertion: the two bodies are the same but for the compiled function
LasagneOne(m, op, image0, up, eng) ==
    LET input_shape == image0.shape
        p == ProcessInput(m, image0)
        image == p.px
        gradient0 == EngineGradient(eng, NewAxis(image))
        gradient1 == AsType(Squeeze0(gradient0), image.dtype)
        gradient == ProcessGradient(p.dpdx, gradient1)
        t1 == <<"process_input", "forward", "backward">>
        t2 == t1 \o <<"process_gradient">>
    IN  IF eng.raise # "no"
        THEN Raise(op, image0, up, "EngineError", <<"process_input">> \o Attempted(eng))
        ELSE IF ~CanSqueeze0(gradient0)
        THEN Raise(op, image0, up, "ValueError", t1)
        ELSE IF gradient.shape # input_shape
        THEN Raise(op, image0, up, "AssertionError", t2)
        ELSE IF gradient.dtype # image.dtype
        THEN Raise(op, image0, up, "AssertionError", t2)
        ELSE [NoCall EXCEPT !.op = op, !.outcome = "ok", !.images = image0,
                            !.up = up, !.grad = gradient, !.trace = t2,
                            !.engGrad = gradient1, !.dpdx = p.dpdx]

\* LasagneModel._gradient_one
GradientOne(m, image, label, eng) == LasagneOne(m, "_gradient_one", image, label, eng)

\* LasagneModel._backward_one
BackwardOne(m, gradient, image, eng) ==
    IF Ndim(gradient) # 1
    THEN Raise("_backward_one", image, gradient, "AssertionError", <<>>)
    ELSE LasagneOne(m, "_backward_one", image, gradient, eng)

\* the caller's view of a helper's return: one[np.newaxis] is returned, an
\* exception of the helper propagates
ReturnNewAxis(op, images, up, one) ==
    IF one.outcome # "ok"
    THEN [one EXCEPT !.op = op, !.images = images, !.up = up]
    ELSE [one EXCEPT !.op = op, !.images = images, !.up = up,
                     !.grad = NewAxis(one.grad), !.single = one.grad]

\* batch_gradients that loops over the examples of a larger batch
LasagneBatchGradients_Loop(m, images, labels, eng) ==
    LET one == GradientOne(m, Index0(images), Index0(labels), eng)
    IN  IF images.shape[1] = 1 /\ labels.shape[1] = 1
        THEN ReturnNewAxis("batch_gradients", images, labels, one)
        ELSE IF images.shape[1] # labels.shape[1] \/ one.outcome # "ok"
        THEN Raise("batch_gradients", images, labels, "NotImplementedError", <<>>)
        ELSE [one EXCEPT !.op = "batch_gradients", !.images = images,
                         !.up = labels, !.single = one.grad,
                         !.grad = [one.grad EXCEPT !.shape = images.shape],
                         !.trace = one.trace \o one.trace]

\* LasagneModel.batch_gradients
LasagneBatchGradients(m, images, labels, eng) ==
    IF images.shape[1] = 1 /\ labels.shape[1] = 1
    THEN ReturnNewAxis("batch_gradients", images, labels,
                       GradientOne(m, Index0(images), Index0(labels), eng))
    ELSE Raise("batch_gradients", images, labels, "NotImplementedError", <<>>)

\* batch_backward that checks only that the two batch sizes agree and
\* then works on element 0
LasagneBatchBackward_Truncate(m, gradients, images, eng) ==
    IF images.shape[1] = gradients.shape[1]
    THEN ReturnNewAxis("batch_backward", images, gradients,
                       BackwardOne(m, Index0(gradients), Index0(images), eng))
    ELSE Raise("batch_backward", images, gradients, "NotImplementedError", <<>>)

\* LasagneModel.batch_backward
LasagneBatchBackward(m, gradients, images, eng) ==
    IF images.shape[1] = 1 /\ gradients.shape[1] = 1
    THEN ReturnNewAxis("batch_backward", images, gradients,
                       BackwardOne(m, Index0(gradients), Index0(images), eng))
    ELSE Raise("batch_backward", images, gradients, "NotImplementedError", <<>>)

\* ------------------------------------------------------- MXNetGluonModel
\* MXNetGluonModel.__init__: num_classes is the caller's argument
MXNetInit(num_classes, pre, c) ==
    [outcome |-> "ok",
     model |-> [kind |-> "mxnet", num_classes |-> num_classes,
                psub |-> pre[1], pdiv |-> pre[2], graphClasses |-> c]]

\* images.grad after backward: the gradient buffer attach_grad allocated
\* for the array, so it has the array's shape
AttachedGrad(eng, data_array) ==
    [shape |-> data_array.shape, dtype |-> eng.gdtype, val |-> <<eng.gval, 1>>]

\* MXNetGluonModel.batch_predictions
MXNetBatchPredictions(m, images0, eng) ==
    LET op == "batch_predictions"
        images == ProcessInput(m, images0).px
        L == EnginePredictions(eng, images.shape[1], m.graphClasses)
        trace == <<"process_input", "forward">>
    IN  IF eng.raise = "forward" THEN Raise(op, images0, NoTensor, "EngineError", trace)
        ELSE [NoCall EXCEPT !.op = op, !.outcome = "ok", !.images = images0,
                            !.pred = L, !.trace = trace]

\* MXNetGluonModel.predictions_and_gradient
MXNetPredictionsAndGradient(m, image0, eng) ==
    LET op == "predictions_and_gradient"
        p == ProcessInput(m, image0)
        data_array == NewAxis(p.px)
        logits == EnginePredictions(eng, data_array.shape[1], m.graphClasses)
        grad == AttachedGrad(eng, data_array)
        predictions == Squeeze0(logits)
        gradient1 == Squeeze0(grad)
        gradient == ProcessGradient(p.dpdx, gradient1)
        t1 == <<"process_input", "forward", "backward">>
    IN  IF eng.raise # "no"
        THEN Raise(op, image0, NoTensor, "EngineError", <<"process_input">> \o Attempted(eng))
        ELSE IF ~CanSqueeze0(logits) \/ ~CanSqueeze0(grad)
        THEN Raise(op, image0, NoTensor, "ValueError", t1)
        ELSE [NoCall EXCEPT !.op = op, !.outcome = "ok", !.images = image0,
                            !.pred = predictions, !.grad = gradient,
                            !.trace = t1 \o <<"process_gradient">>,
                            !.engGrad = gradient1, !.dpdx = p.dpdx]

\* MXNetGluonModel.batch_gradients
MXNetBatchGradients(m, images0, labels, eng) ==
    LET op == "batch_gradients"
        p == ProcessInput(m, images0)
        gradients0 == AttachedGrad(eng, p.px)
        gradients == ProcessGradient(p.dpdx, gradients0)
    IN  IF eng.raise # "no"
        THEN Raise(op, images0, labels, "EngineError", <<"process_input">> \o Attempted(eng))
        ELSE [NoCall EXCEPT !.op = op, !.outcome = "ok", !.images = images0,
                            !.up = labels, !.grad = gradients,
                            !.trace = <<"process_input", "forward", "backward",
                                        "process_gradient">>,
                            !.engGrad = gradients0, !.dpdx = p.dpdx]

\* MXNetGluonModel.batch_backward
MXNetBatchBackward(m, gradients, images0, eng) ==
    LET op == "batch_backward"
        p == ProcessInput(m, images0)
        logits == EnginePredictions(eng, p.px.shape[1], m.graphClasses)
        gradients0 == AttachedGrad(eng, p.px)
        result == ProcessGradient(p.dpdx, gradients0)
    IN  IF Ndim(gradients) # 2
        THEN Raise(op, images0, gradients, "AssertionError", <<>>)
        ELSE IF eng.raise = "forward"
        THEN Raise(op, images0, gradients, "EngineError", <<"process_input", "forward">>)
        ELSE IF gradients.shape # logits.shape
        THEN Raise(op, images0, gradients, "AssertionError", <<"process_input", "forward">>)
        ELSE IF eng.raise = "backward"
        THEN Raise(op, images0, gradients, "EngineError",
                   <<"process_input", "forward", "backward">>)
        ELSE [NoCall EXCEPT !.op = op, !.outcome = "ok", !.images = images0,
                            !.up = gradients, !.grad = result,
                            !.trace = <<"process_input", "forward", "backward",
                                        "process_gradient">>,
                            !.engGrad = gradients0, !.dpdx = p.dpdx]

\* ----------------------------------------------------------- git_cloner
MaxUris == 3
Uris == 1..MaxUris

FOLDER == ".foolbox_zoo"
NoPath == <<>>

\* common.sha256_hash: a digest of the uri, without collisions on Uris
Sha256Hash(git_uri) == (git_uri * 7 + 3) % 31

\* common.home_directory_path
HomeDirectoryPath(folder, hash_digest) == <<"~", folder, hash_digest>>

\* common.path_exists
PathExists(files, local_path) == local_path \in files

\* what Repo.clone_from raises when the repository cannot be retrieved
CloneFailures == {"GitCommandError", "OSError"}

\* except GitCommandError
Caught_GitOnly(e) == e = "GitCommandError"

\* except Exception
Caught(e) == e \in {"GitCommandError", "OSError"}

\* _clone_repo: res is "ok" or the exception Repo.clone_from raised
CloneRepo(git_uri, local_path, res) ==
    IF res = "ok" THEN "ok"
    ELSE IF Caught(res) THEN "GitCloneError"
    ELSE res

NoFetch ==
    [uri |-> 0, outcome |-> "none", local_path |-> NoPath, attempts |-> 0,
     raised |-> "none"]

\* clone that does not look at exists_locally
Clone_Always(git_uri) ==
    LET local_path == HomeDirectoryPath(FOLDER, Sha256Hash(git_uri))
    IN  /\ clones[git_uri] < MaxCalls
        /\ \E res \in {"ok"} \cup CloneFailures, partial \in BOOLEAN :
              LET outcome == CloneRepo(git_uri, local_path, res)
              IN  /\ fs' = IF res = "ok" \/ partial
                           THEN fs \cup {local_path} ELSE fs
                  /\ fetch' = [uri |-> git_uri, outcome |-> outcome,
                               local_path |-> IF outcome = "ok"
                                              THEN local_path ELSE NoPath,
                               attempts |-> 1,
                               raised |-> IF res = "ok" THEN "none" ELSE res]
                  /\ returned' = IF outcome = "ok"
                                 THEN [returned EXCEPT ![git_uri] = @ \cup {local_path}]
                                 ELSE returned
        /\ clones' = [clones EXCEPT ![git_uri] = @ + 1]
        /\ UNCHANGED <<model, ctor, call>>

\* clone(git_uri); partial: a failed clone may leave the directory behind
Clone(git_uri) ==
    LET hash_digest == Sha256Hash(git_uri)
        local_path == HomeDirectoryPath(FOLDER, hash_digest)
        exists_locally == PathExists(fs, local_path)
    IN  IF ~exists_locally
        THEN /\ clones[git_uri] < MaxCalls
             /\ \E res \in {"ok"} \cup CloneFailures, partial \in BOOLEAN :
                   LET outcome == CloneRepo(git_uri, local_path, res)
                   IN  /\ fs' = IF res = "ok" \/ partial
                                THEN fs \cup {local_path} ELSE fs
                       /\ fetch' = [uri |-> git_uri, outcome |-> outcome,
                                    local_path |-> IF outcome = "ok"
                                                   THEN local_path ELSE NoPath,
                                    attempts |-> 1,
                                    raised |-> IF res = "ok" THEN "none" ELSE res]
                       /\ returned' = IF outcome = "ok"
                                      THEN [returned EXCEPT ![git_uri] = @ \cup {local_path}]
                                      ELSE returned
             /\ clones' = [clones EXCEPT ![git_uri] = @ + 1]
             /\ UNCHANGED <<model, ctor, call>>
        ELSE /\ fetch' = [uri |-> git_uri, outcome |-> "ok",
                          local_path |-> local_path, attempts |-> 0,
                          raised |-> "none"]
             /\ returned' = [returned EXCEPT ![git_uri] = @ \cup {local_path}]
             /\ UNCHANGED <<model, ctor, call, fs, clones>>

\* --------------------------------------------------------------- actions
zoo == <<fs, fetch, clones, returned>>

\* calls on an adapter are serialized: an operation starts when the result
\* of the previous one has been taken
Idle == call = NoCall

Construct(kind, declared, r) ==
    /\ Idle
    /\ model' = r.model
    /\ ctor' = [kind |-> kind, outcome |-> r.outcome, declared |-> declared]
    /\ call' = NoCall
    /\ UNCHANGED zoo

ConstructKeras ==
    \E versionOk \in BOOLEAN, predicts \in {"probs", "probabilities", "logits", "softmax"},
       declared \in DeclaredShapes, backend \in {"tensorflow", "theano"},
       opInputs \in 1..2, pre \in Preprocessings :
        Construct("keras", declared,
                  KerasInit(versionOk, predicts, declared, backend, opInputs,
                            pre, MaxClasses))

ConstructLasagne ==
    \E declared \in DeclaredShapes, pre \in Preprocessings :
        Construct("lasagne", declared, LasagneInit(declared, pre, MaxClasses))

ConstructMXNet ==
    \E num_classes \in {None} \cup 1..MaxClasses, pre \in Preprocessings :
        Construct("mxnet", <<>>, MXNetInit(num_classes, pre, MaxClasses))

\* an adapter of the kind exists and no call is in progress
Ready(kind) == Idle /\ model.kind = kind

Called(c) ==
    /\ call' = c
    /\ UNCHANGED <<model, ctor>>
    /\ UNCHANGED zoo

\* num_classes() of the three adapters
NumClasses ==
    /\ Idle
    /\ model.kind # "none"
    /\ call' = [NoCall EXCEPT !.op = "num_classes", !.outcome = "ok",
                              !.pred = [shape |-> <<>>, dtype |-> "int",
                                        val |-> <<model.num_classes, 1>>]]
    /\ UNCHANGED <<model, ctor>>
    /\ UNCHANGED zoo

KerasBatchPredictionsCall ==
    /\ Ready("keras")
    /\ \E n \in 1..MaxBatch : \E images \in Images(n), eng \in ForwardRuns :
           Called(KerasBatchPredictions(model, images, eng))

KerasPredictionsAndGradientCall ==
    /\ Ready("keras")
    /\ \E image \in Image, eng \in EngineRuns :
           Called(KerasPredictionsAndGradient(model, image, eng))

KerasBatchGradientsCall ==
    /\ Ready("keras")
    /\ \E n \in 1..MaxBatch, k \in 1..MaxBatch : \E images \in Images(n), eng \in GradientRuns :
           Called(KerasBatchGradients(model, images, Labels(k), eng))

KerasBatchBackwardCall ==
    /\ Ready("keras")
    /\ \E n \in 1..MaxBatch : \E images \in Images(n), gradients \in Upstreams, eng \in GradientRuns :
           Called(KerasBatchBackward(model, gradients, images, eng))

LasagneBatchPredictionsCall ==
    /\ Ready("lasagne")
    /\ \E n \in 1..MaxBatch : \E images \in Images(n), eng \in ForwardRuns :
           Called(LasagneBatchPredictions(model, images, eng))

LasagnePredictionsAndGradientCall ==
    /\ Ready("lasagne")
    /\ \E image \in Image, eng \in EngineRuns :
           Called(LasagnePredictionsAndGradient(model, image, eng))

LasagneBatchGradientsCall ==
    /\ Ready("lasagne")
    /\ \E n \in 1..MaxBatch, k \in 1..MaxBatch : \E images \in Images(n), eng \in GradientRuns :
           Called(LasagneBatchGradients(model, images, Labels(k), eng))

LasagneBatchBackwardCall ==
    /\ Ready("lasagne")
    /\ \E n \in 1..MaxBatch : \E images \in Images(n), gradients \in Upstreams, eng \in GradientRuns :
           Called(LasagneBatchBackward(model, gradients, images, eng))

MXNetBatchPredictionsCall ==
    /\ Ready("mxnet")
    /\ \E n \in 1..MaxBatch : \E images \in Images(n), eng \in ForwardRuns :
           Called(MXNetBatchPredictions(model, images, eng))

MXNetPredictionsAndGradientCall ==
    /\ Ready("mxnet")
    /\ \E image \in Image, eng \in MXNetRuns :
           Called(MXNetPredictionsAndGradient(model, image, eng))

MXNetBatchGradientsCall ==
    /\ Ready("mxnet")
    /\ \E n \in 1..MaxBatch, k \in 1..MaxBatch :
         \E images \in Images(n), eng \in MXNetRuns \cap GradientRuns :
           Called(MXNetBatchGradients(model, images, Labels(k), eng))

MXNetBatchBackwardCall ==
    /\ Ready("mxnet")
    /\ \E n \in 1..MaxBatch : \E images \in Images(n), gradients \in Upstreams, eng \in MXNetRuns :
           Called(MXNetBatchBackward(model, gradients, images, eng))

\* the caller takes the result, or the exception, of the last call
Consume ==
    /\ ~Idle
    /\ call' = NoCall
    /\ UNCHANGED <<model, ctor>>
    /\ UNCHANGED zoo

Init ==
    /\ model = NoModel
    /\ ctor = [kind |-> "none", outcome |-> "none", declared |-> <<>>]
    /\ call = NoCall
    /\ fs = {}
    /\ fetch = NoFetch
    /\ clones = [u \in Uris |-> 0]
    /\ returned = [u \in Uris |-> {}]

Next ==
    \/ ConstructKeras
    \/ ConstructLasagne
    \/ ConstructMXNet
    \/ NumClasses
    \/ KerasBatchPredictionsCall
    \/ KerasPredictionsAndGradientCall
    \/ KerasBatchGradientsCall
    \/ KerasBatchBackwardCall
    \/ LasagneBatchPredictionsCall
    \/ LasagnePredictionsAndGradientCall
    \/ LasagneBatchGradientsCall
    \/ LasagneBatchBackwardCall
    \/ MXNetBatchPredictionsCall
    \/ MXNetPredictionsAndGradientCall
    \/ MXNetBatchGradientsCall
    \/ MXNetBatchBackwardCall
    \/ Consume

Spec == Init /\ [][Next]_vars

ZooNext == \E git_uri \in Uris : Clone(git_uri)

ZooSpec == Init /\ [][ZooNext]_vars

\* ------------------------------------------------------------ vocabulary
\* the error kinds of the design, as the exceptions the code raises
InvalidShapeError == "AssertionError"
NotSupportedError == "NotImplementedError"
ConfigurationError == "AssertionError"
FetchError == "GitCloneError"

FacadeOps ==
    {"batch_predictions", "predictions_and_gradient", "batch_gradients",
     "batch_backward"}

GradientOps == FacadeOps \ {"batch_predictions"}

\* how often the engine ran a pass during the last call
Passes(pass) == Cardinality({i \in DOMAIN call.trace : call.trace[i] = pass})

FullTrace == <<"process_input", "forward", "backward", "process_gradient">>

\* ----------------------------------------------------------------- C1
\* C1: batch_backward with an upstream gradient of rank other than 2 fails
\* with InvalidShapeError in every adapter, whatever the batch size.
C1_RankNot2IsInvalidShape ==
    (call.op = "batch_backward" /\ Ndim(call.up) # 2)
        => call.outcome = InvalidShapeError

\* ----------------------------------------------------------------- C2
\* C2: in the Lasagne adapter batch_gradients and batch_backward with a
\* batch of more than one example fail with NotSupportedError before the
\* engine is invoked; with a batch of one they are not rejected as
\* unsupported, and what they return is the result of the single-example
\* helper on element 0 with a leading batch axis of length 1.
C2_LasagneBatchOfOne ==
    (model.kind = "lasagne" /\ call.op \in {"batch_gradients", "batch_backward"}) =>
        /\ call.images.shape[1] > 1 =>
              (call.outcome = NotSupportedError /\ call.trace = <<>>)
        /\ (call.images.shape[1] = 1 /\ call.up.shape[1] = 1) =>
              call.outcome # NotSupportedError
        /\ call.outcome = "ok" =>
              /\ call.images.shape[1] = 1
              /\ call.grad.shape = <<1>> \o call.single.shape
              /\ call.grad.dtype = call.single.dtype
              /\ call.grad.val = call.single.val
              /\ \E eng \in GradientRuns :
                    LET one == IF call.op = "batch_gradients"
                               THEN GradientOne(model, Index0(call.images),
                                                Index0(call.up), eng)
                               ELSE BackwardOne(model, Index0(call.up),
                                                Index0(call.images), eng)
                    IN  one.outcome = "ok" /\ one.grad = call.single

C2_Witness ==
    /\ model.kind = "lasagne"
    /\ call.op = "batch_backward"
    /\ call.outcome = "ok"
    /\ call.images.shape[1] = 1
    /\ model.pdiv = 2

\* ----------------------------------------------------------------- C3
\* C3: every gradient a Facade operation returns went through
\* preprocessing of the raw input, then the engine's forward and backward
\* pass, then exactly one gradient correction with the scale 1 / divisor
\* that preprocessing produced.
C3_GradientCorrectedOnce ==
    (call.op \in GradientOps /\ call.outcome = "ok") =>
        /\ call.trace = FullTrace
        /\ call.dpdx = <<1, model.pdiv>>
        /\ call.grad.val = RatMul(call.dpdx, call.engGrad.val)

C3_Witness ==
    /\ call.op \in GradientOps
    /\ call.outcome = "ok"
    /\ model.pdiv = 2
    /\ call.grad.val = <<1, 2>>

\* ----------------------------------------------------------------- C4
\* C4: batch_predictions returns a matrix of shape (N, num_classes()) or
\* fails, in every adapter.
C4_PredictionsShape ==
    (call.op = "batch_predictions" /\ call.outcome = "ok") =>
        call.pred.shape = <<call.images.shape[1], model.num_classes>>

\* ----------------------------------------------------------------- C5
\* C5: a gradient that a Facade operation returns has the shape and the
\* dtype of the raw input, in every adapter.
C5_GradientLikeRawInput ==
    (call.op \in GradientOps /\ call.outcome = "ok") =>
        /\ call.grad.shape = call.images.shape
        /\ call.grad.dtype = call.images.dtype

\* ----------------------------------------------------------------- C6
\* C6: num_classes() is the value fixed at construction, construction
\* fails with ConfigurationError when the declared output shape gives no
\* known class count, and no adapter exists whose class count is None.
C6_ClassCountKnown ==
    /\ model.kind # "none" => model.num_classes # None
    /\ (Len(ctor.declared) = 2 /\ ctor.declared[2] = None) =>
          ctor.outcome = ConfigurationError
    /\ call.op = "num_classes" => call.pred.val = <<model.num_classes, 1>>

\* ----------------------------------------------------------------- C7
LocalPath(git_uri) == HomeDirectoryPath(FOLDER, Sha256Hash(git_uri))

\* C7: every call of clone that returns, returns the path derived from the
\* hash of its uri, so calls with the same uri return the same path and
\* calls with different uris different paths; a clone is attempted only
\* when that path does not exist at the time of the call, and once it
\* exists it stays and no later call with that uri clones again.
C7_CloneIdempotent ==
    /\ [](\A u \in Uris : returned[u] \subseteq {LocalPath(u)})
    /\ [](\A u, v \in Uris : (u # v) => (returned[u] \cap returned[v] = {}))
    /\ [](fetch.outcome = "ok" => fetch.local_path = LocalPath(fetch.uri))
    /\ [][\A u \in Uris :
            /\ clones'[u] # clones[u] => LocalPath(u) \notin fs
            /\ LocalPath(u) \in fs =>
                  (LocalPath(u) \in fs' /\ clones'[u] = clones[u]
                   /\ (fetch'.uri = u => fetch'.attempts = 0))]_vars

C7_Witness ==
    /\ fetch.outcome = "ok"
    /\ fetch.attempts = 0
    /\ clones[fetch.uri] = 1
    /\ returned[fetch.uri] = {LocalPath(fetch.uri)}

\* ----------------------------------------------------------------- C8
\* C8: when Repo.clone_from raises, clone fails with GitCloneError after
\* that one attempt: no path is returned, the exception raised is neither
\* swallowed nor propagated unchanged, and no call clones more than once.
C8_CloneFailureIsFetchError ==
    /\ [](fetch.raised # "none" =>
            /\ fetch.outcome = FetchError
            /\ fetch.outcome # fetch.raised
            /\ fetch.local_path = NoPath
            /\ fetch.attempts = 1)
    /\ [][\A u \in Uris : clones'[u] <= clones[u] + 1]_vars

C8_Witness ==
    /\ fetch.raised = "OSError"
    /\ fetch.outcome = FetchError
    /\ fetch.local_path = NoPath

\* ----------------------------------------------------------------- C9
Pos(seq, x) == CHOOSE i \in DOMAIN seq : seq[i] = x
Steps(seq) == {seq[i] : i \in DOMAIN seq}

\* the choice of strategy: the part of C9 that does not concern the loss
C9_Strategies ==
    /\ (model.predicts = "probabilities" /\ model.backend = "tensorflow") =>
          (model.predTensor = <<"op.inputs">> /\ "to_logits" \notin Steps(model.build))
    /\ "to_logits" \in Steps(model.build) =>
          /\ model.predicts = "probabilities"
          /\ model.backend # "tensorflow"
          /\ model.predTensor = <<"clip", "log">>
          /\ model.eps[1] * 10000000 = 10 ^ model.eps[2]
          /\ model.warnings >= 1
          /\ "warning" \in Steps(model.build)
    /\ (model.predicts = "probabilities" /\ model.backend # "tensorflow") =>
          "to_logits" \in Steps(model.build)
    /\ model.predicts = "logits" =>
          (model.predTensor = <<>> /\ model.build = <<"loss">>)

\* C9 as stated: the strategy is chosen as described and, in every case,
\* the logits-equivalent tensor is derived before the loss is built, so the
\* loss works on the same logits tensor that the operations return.
C9_LossOnLogitsAlways ==
    model.kind = "keras" =>
        /\ C9_Strategies
        /\ model.lossTensor = model.predTensor
        /\ model.lossFromLogits
        /\ "to_logits" \in Steps(model.build) =>
              Pos(model.build, "to_logits") < Pos(model.build, "loss")

\* C9 amended: the strategy is chosen as described; with strategy 1 or
\* convention Logits the loss is built from logits on the tensor that the
\* operations return, but in the fallback case the loss is built on the
\* native probabilities (from_logits=False) before the log-clip tensor is
\* derived, and that tensor serves the returned predictions only.
C9_LossOnLogitsUnlessFallback ==
    model.kind = "keras" =>
        /\ C9_Strategies
        /\ "to_logits" \notin Steps(model.build) =>
              (model.lossTensor = model.predTensor /\ model.lossFromLogits)
        /\ "to_logits" \in Steps(model.build) =>
              /\ model.lossTensor = <<>>
              /\ ~model.lossFromLogits
              /\ model.predTensor = ToLogits(model.lossTensor)
              /\ Pos(model.build, "loss") < Pos(model.build, "to_logits")

C9_Witness ==
    /\ model.kind = "keras"
    /\ model.predicts = "probabilities"
    /\ model.backend = "theano"
    /\ model.predTensor = <<"clip", "log">>
    /\ ctor.outcome = "ok"

\* ---------------------------------------------------------------- C10
\* C10 as stated: every Facade operation runs exactly one forward pass and
\* at most one backward pass on any input; batch_predictions runs no
\* backward pass.
C10_ExactlyOneForward ==
    call.op \in FacadeOps =>
        /\ Passes("forward") = 1
        /\ Passes("backward") <= 1
        /\ call.op = "batch_predictions" => Passes("backward") = 0

\* C10 amended: every Facade operation runs at most one forward and at
\* most one backward pass and never a backward pass without a forward
\* pass; it runs exactly one forward pass unless it is rejected before the
\* engine is reached by the rank check (InvalidShapeError) or the
\* batch-size check (NotSupportedError), and then it runs none; an
\* operation that returns a gradient ran exactly one backward pass, and
\* batch_predictions runs none.
C10_AtMostOneForward ==
    call.op \in FacadeOps =>
        /\ Passes("forward") <= 1
        /\ Passes("backward") <= Passes("forward")
        /\ call.op = "batch_predictions" => Passes("backward") = 0
        /\ Passes("forward") = 0 =>
              /\ call.outcome \in {InvalidShapeError, NotSupportedError}
              /\ call.op \in {"batch_gradients", "batch_backward"}
              /\ call.trace = <<>>
        /\ call.outcome = "ok" =>
              /\ Passes("forward") = 1
              /\ call.op \in GradientOps => Passes("backward") = 1

C10_Witness ==
    /\ call.op = "batch_backward"
    /\ call.outcome = NotSupportedError
    /\ Passes("forward") = 0
    /\ call.images.shape[1] = MaxBatch

====
